---- MODULE Spec2Model ----
(***************************************************************************)
(* Model of the useUldk hook (src/README.md, lines 179-454, the hook's     *)
(* TypeScript source): the list parser prepareData, the geometry pipeline  *)
(* prepareGeometry / from2180to4326, and the hook's state slots, effects   *)
(* and fetch operations.                                                   *)
(*                                                                         *)
(* A string is a sequence of one-character strings: "a|1" is               *)
(* <<"a", "|", "1">>.                                                      *)
(***************************************************************************)
EXTENDS Integers, Sequences, FiniteSets, TLC

VARIABLES
    pdInput,      \* the text handed to prepareData
    pdOutput,     \* what prepareData returned
    pdDone,       \* prepareData has returned
    gPc,          \* the geometry lookup's promise: "idle", "pending", "resolved", "rejected"
    gRequest,     \* the lookup's request parameter: GetRegionById or GetParcelById
    gId,          \* the lookup's id parameter
    gNet,         \* what fetch did: "none" so far, "ok" (a response text), "failed"
    gData,        \* the response text (resp.text())
    gValue,       \* the value the promise resolved with
    voivodeships, \* useState<Option[]>([])
    districts,    \* useState<Option[]>([])
    tenants,      \* useState<Option[]>([])
    precincts,    \* useState<Option[]>([])
    error,        \* useState<string | null>(null)
    props,        \* the props of the latest render
    mounted,      \* the first render is committed and its effects have run
    issued,       \* the list requests handed to fetch, in the order of the calls
    inflight,     \* the requests (indices of issued) fetch has not settled yet
    answered,     \* what fetch answered to each settled request
    lastOk        \* per entity kind, the latest request settled with a response

pdVars == <<pdInput, pdOutput, pdDone>>
geomVars == <<gPc, gRequest, gId, gNet, gData, gValue>>
stateVars == <<voivodeships, districts, tenants, precincts, error>>
netVars == <<issued, inflight, answered, lastOk>>
hookVars == <<stateVars, props, mounted, netVars>>
vars == <<pdVars, geomVars, hookVars>>

-----------------------------------------------------------------------------
(* String.prototype.split / includes, Array.prototype.shift / filter        *)

NL == "\n"
PIPE == "|"

\* s.includes(sub)
Includes(s, sub) ==
    \E i \in 1..(Len(s) - Len(sub) + 1) : SubSeq(s, i, i + Len(sub) - 1) = sub

\* s.split(sep) for a one-character separator: always at least one piece
RECURSIVE Split(_, _)
Split(s, sep) ==
    IF \A i \in 1..Len(s) : s[i] # sep
    THEN <<s>>
    ELSE LET i == CHOOSE k \in 1..Len(s) :
                      s[k] = sep /\ \A j \in 1..(k - 1) : s[j] # sep
         IN  <<SubSeq(s, 1, i - 1)>> \o Split(SubSeq(s, i + 1, Len(s)), sep)

\* const [label, value] = val.split("|"); return { value, label }
OptionOf(val) ==
    LET parts == Split(val, PIPE)
    IN  [label |-> parts[1], value |-> parts[2]]

\* prepareData without its list.shift()
prepareDataKeepsHeader(data) ==
    LET list == Split(data, NL)
        kept == SelectSeq(list, LAMBDA val : Includes(val, <<PIPE>>))
    IN  [i \in 1..Len(kept) |-> OptionOf(kept[i])]

\* list.shift() drops the header line; filter keeps the lines holding a '|'
prepareData(data) ==
    LET list == Tail(Split(data, NL))
        kept == SelectSeq(list, LAMBDA val : Includes(val, <<PIPE>>))
    IN  [i \in 1..Len(kept) |-> OptionOf(kept[i])]


\* no direct call of the list parser is under way
InitList0 ==
    /\ pdInput = <<>>
    /\ pdOutput = <<>>
    /\ pdDone = TRUE

-----------------------------------------------------------------------------
(* Geometry pipeline.  wkx and proj4 are libraries: a hex-encoded WKB blob  *)
(* is one token of the text (a one-element line), wkx's decoding is a table *)
(* from tokens to GeoJSON geometries, and proj4's transform is an           *)
(* uninterpreted function of the position it is given.                      *)

\* a position in EPSG:2180
Pos(x, y) == [crs |-> "EPSG:2180", x |-> x, y |-> y]

\* proj4(sourceProj, destProj, [x, y])
proj4(sourceProj, destProj, p) == [crs |-> destProj, from |-> sourceProj, of |-> p]

WkbTokens == {"wkbPoint", "wkbPolygon", "wkbMultiPolygon", "wkbLineString", "wkbBad"}

Ring3 == <<Pos(0, 0), Pos(1, 0), Pos(0, 1)>>
Ring2 == <<Pos(5, 5), Pos(6, 6)>>

\* wkx.Geometry.parse(Buffer.from(wkbFormatString, "hex")).toGeoJSON(); parse throws
\* on what is no WKB encoding
wkxParse(wkbFormatString) ==
    IF wkbFormatString = <<"wkbPoint">>
    THEN [ok |-> TRUE, geojson |-> [type |-> "Point", coordinates |-> Pos(1, 2)]]
    ELSE IF wkbFormatString = <<"wkbPolygon">>
    THEN [ok |-> TRUE,
          geojson |-> [type |-> "Polygon", coordinates |-> <<Ring3, Ring2>>]]
    ELSE IF wkbFormatString = <<"wkbMultiPolygon">>
    THEN [ok |-> TRUE,
          geojson |-> [type |-> "MultiPolygon",
                       coordinates |-> <<<<Ring2>>, <<Ring3, Ring2>>>>]]
    ELSE IF wkbFormatString = <<"wkbLineString">>
    THEN [ok |-> TRUE,
          geojson |-> [type |-> "LineString", coordinates |-> Ring2]]
    ELSE [ok |-> FALSE]

transformPolygonCoordinates(coord) ==
    [r \in 1..Len(coord) |->
        [i \in 1..Len(coord[r]) |-> proj4("EPSG:2180", "EPSG:4326", coord[r][i])]]

\* the dispatch without its MultiPolygon branch
ReprojectNoMulti(geojson) ==
    IF geojson.type = "Polygon"
    THEN [geojson EXCEPT
             !.coordinates = transformPolygonCoordinates(geojson.coordinates)]
    ELSE IF geojson.type = "Point"
    THEN [geojson EXCEPT
             !.coordinates = proj4("EPSG:2180", "EPSG:4326", geojson.coordinates)]
    ELSE geojson

\* the type dispatch of from2180to4326 on the decoded GeoJSON object
Reproject(geojson) ==
    LET g1 == IF geojson.type = "Polygon"
              THEN [geojson EXCEPT
                       !.coordinates = transformPolygonCoordinates(geojson.coordinates)]
              ELSE geojson
    IN  IF g1.type = "MultiPolygon"
        THEN [g1 EXCEPT !.coordinates =
                 [k \in 1..Len(g1.coordinates) |->
                     transformPolygonCoordinates(g1.coordinates[k])]]
        ELSE IF g1.type = "Point"
        THEN [g1 EXCEPT !.coordinates =
                 proj4("EPSG:2180", "EPSG:4326", g1.coordinates)]
        ELSE g1

\* [ok |-> FALSE] is a thrown exception
from2180to4326(wkbFormatString) ==
    LET parsed == wkxParse(wkbFormatString)
    IN  IF ~parsed.ok
        THEN [ok |-> FALSE]
        ELSE [ok |-> TRUE, geojson |-> Reproject(parsed.geojson)]

Undefined == [tag |-> "undefined"]
Array(items) == [tag |-> "array", items |-> items]

\* the catch clause written inside the map callback: a bad line is logged and skipped
prepareGeometrySkipsBad(data) ==
    LET parts == Split(data, NL)
        status == Head(parts)
        response == SelectSeq(Tail(parts), LAMBDA wkd : wkd # <<>>)
        good == SelectSeq(response, LAMBDA wkd : from2180to4326(wkd).ok)
    IN  IF Includes(status, <<"-", "1">>)
        THEN Undefined
        ELSE Array([i \in 1..Len(good) |-> from2180to4326(good[i]).geojson])

prepareGeometry(data) ==
    LET parts == Split(data, NL)
        status == Head(parts)
        response == SelectSeq(Tail(parts), LAMBDA wkd : wkd # <<>>)
        mapped == [i \in 1..Len(response) |-> from2180to4326(response[i])]
    IN  IF Includes(status, <<"-", "1">>)
        THEN Undefined
        ELSE IF \E i \in 1..Len(mapped) : ~mapped[i].ok
        THEN Undefined
        ELSE Array([i \in 1..Len(mapped) |-> mapped[i].geojson])

-----------------------------------------------------------------------------
(* getRegionGeometryById / getParcelGeometryById: one fetch, then           *)
(* prepareGeometry on the response text.                                    *)

MaxStatusLen == 3
MaxLines == 2

StatusTexts == UNION {[1..n -> {"-", "1", "0"}] : n \in 0..MaxStatusLen}
GeomLines == {<<>>} \cup {<<t>> : t \in WkbTokens}
GeomBodies == UNION {[1..n -> GeomLines] : n \in 0..MaxLines}

\* the status line followed by a newline and a line, for every line of the body
RECURSIVE GeomText(_, _)
GeomText(status, body) ==
    IF body = <<>>
    THEN status
    ELSE GeomText(status \o <<NL>> \o Head(body), Tail(body))

GeomInputs == {GeomText(st, body) : st \in StatusTexts, body \in GeomBodies}
GeomIds == {"0201", "141201_1.0001.1867/2"}

InitGeom ==
    /\ gPc = "idle"
    /\ gRequest = "none"
    /\ gId = "none"
    /\ gNet = "none"
    /\ gData = <<>>
    /\ gValue = Undefined

getRegionGeometryById(regionId) ==
    /\ mounted
    /\ gPc = "idle"
    /\ gPc' = "pending"
    /\ gRequest' = "GetRegionById"
    /\ gId' = regionId
    /\ UNCHANGED <<gNet, gData, gValue>>
    /\ UNCHANGED <<pdVars, hookVars>>

getParcelGeometryById(parcelId) ==
    /\ mounted
    /\ gPc = "idle"
    /\ gPc' = "pending"
    /\ gRequest' = "GetParcelById"
    /\ gId' = parcelId
    /\ UNCHANGED <<gNet, gData, gValue>>
    /\ UNCHANGED <<pdVars, hookVars>>

\* await fetch(...) or await resp.text() rejects: nothing catches it
GeometryFetchRejects ==
    /\ gPc = "pending"
    /\ gPc' = "rejected"
    /\ gNet' = "failed"
    /\ UNCHANGED <<gRequest, gId, gData, gValue>>
    /\ UNCHANGED <<pdVars, hookVars>>

\* const data = await resp.text(); return prepareGeometry(data)
\* (the response text is one of texts)
GeometryFetchResolves(texts) ==
    /\ gPc = "pending"
    /\ \E data \in texts :
           /\ gData' = data
           /\ gValue' = prepareGeometry(data)
    /\ gPc' = "resolved"
    /\ gNet' = "ok"
    /\ UNCHANGED <<gRequest, gId>>
    /\ UNCHANGED <<pdVars, hookVars>>

-----------------------------------------------------------------------------
(* The hook: state slots, the two effects and the fetch operations.         *)

Null == "null"
Objects == {"wojewodztwo", "powiat", "gmina", "obreb"}
\* the value of a prop that is not given (undefined); "" is a prop given as the
\* empty string: both are falsy, and the two differ in a dependency array
NotGiven == "<undefined>"
Truthy(v) == v \notin {NotGiven, ""}
NoProps == [voivodeship |-> NotGiven, district |-> NotGiven, tenant |-> NotGiven]
NoRequest == [id |-> 0, data |-> <<>>]

\* what the awaited fetch(...) and resp.text() did
Failed == [ok |-> FALSE, data |-> <<>>]
Text(data) == [ok |-> TRUE, data |-> data]

InitHook(p) ==
    /\ voivodeships = <<>>
    /\ districts = <<>>
    /\ tenants = <<>>
    /\ precincts = <<>>
    /\ error = Null
    /\ props = p
    /\ mounted = FALSE
    /\ issued = <<>>
    /\ inflight = {}
    /\ answered = <<>>
    /\ lastOk = [o \in Objects |-> NoRequest]

\* the voivodeship effect with the props as its dependencies
VoivodeshipDepsAsProps(p) == <<p.voivodeship, p.district, p.tenant>>

\* the dependency arrays of the two effects, compared element by element (Object.is)
VoivodeshipDeps(p) == <<>>

PropsDeps(p) == <<p.voivodeship, p.district, p.tenant>>

\* the requests an effect run issues: fetch(...obiekt=wojewodztwo...)
VoivodeshipEffect == <<[object |-> "wojewodztwo", teryt |-> ""]>>

\* the props effect fetching the tenants of the voivodeship along with its districts
PropsEffectCascade(p) ==
    IF Truthy(p.voivodeship)
    THEN <<[object |-> "powiat", teryt |-> p.voivodeship],
           [object |-> "gmina", teryt |-> p.voivodeship]>>
    ELSE <<>>

\* if (props?.voivodeship) fetchDistricts(...); if (props?.district) ...
PropsEffect(p) ==
    (IF Truthy(p.voivodeship)
     THEN <<[object |-> "powiat", teryt |-> p.voivodeship]>> ELSE <<>>)
    \o (IF Truthy(p.district)
        THEN <<[object |-> "gmina", teryt |-> p.district]>> ELSE <<>>)
    \o (IF Truthy(p.tenant)
        THEN <<[object |-> "obreb", teryt |-> p.tenant]>> ELSE <<>>)

\* the requests issued when a render with props p is committed: an effect runs on
\* the first commit and whenever its dependency array differs from the last one
EffectsOf(p, last, first) ==
    (IF first \/ VoivodeshipDeps(p) # VoivodeshipDeps(last)
     THEN VoivodeshipEffect ELSE <<>>)
    \o (IF first \/ PropsDeps(p) # PropsDeps(last) THEN PropsEffect(p) ELSE <<>>)

Issue(reqs) ==
    /\ issued' = issued \o reqs
    /\ inflight' = inflight \cup (Len(issued) + 1 .. Len(issued) + Len(reqs))
    /\ UNCHANGED <<answered, lastOk>>

MaxRequests == 3

Mount ==
    /\ ~mounted
    /\ mounted' = TRUE
    /\ Issue(EffectsOf(props, props, TRUE))
    /\ UNCHANGED <<stateVars, props, pdVars, geomVars>>

\* the component renders again with other props
PropsChange(p) ==
    /\ mounted
    /\ p # props
    /\ Len(issued) + Len(EffectsOf(p, props, FALSE)) <= MaxRequests
    /\ props' = p
    /\ Issue(EffectsOf(p, props, FALSE))
    /\ UNCHANGED <<stateVars, mounted, pdVars, geomVars>>

\* the call of a fetch operation, up to its await of fetch(...)
fetchDistricts(value) ==
    /\ mounted
    /\ Len(issued) < MaxRequests
    /\ Issue(<<[object |-> "powiat", teryt |-> value]>>)
    /\ UNCHANGED <<stateVars, props, mounted, pdVars, geomVars>>

fetchTenants(value) ==
    /\ mounted
    /\ Len(issued) < MaxRequests
    /\ Issue(<<[object |-> "gmina", teryt |-> value]>>)
    /\ UNCHANGED <<stateVars, props, mounted, pdVars, geomVars>>

fetchPrecincts(value) ==
    /\ mounted
    /\ Len(issued) < MaxRequests
    /\ Issue(<<[object |-> "obreb", teryt |-> value]>>)
    /\ UNCHANGED <<stateVars, props, mounted, pdVars, geomVars>>

\* fetchObject after its await: the parsed list, or (the catch having logged the
\* error) the function () => controller.abort(), which is no array
fetchObject(net) ==
    IF net.ok
    THEN [isArray |-> TRUE, value |-> prepareData(net.data)]
    ELSE [isArray |-> FALSE, value |-> <<>>]

\* request id is settled by fetch with net
Settle(id, net) ==
    /\ id \in inflight
    /\ inflight' = inflight \ {id}
    /\ answered' = [k \in DOMAIN answered \cup {id} |->
                       IF k = id THEN net ELSE answered[k]]
    /\ lastOk' = IF net.ok
                 THEN [lastOk EXCEPT ![issued[id].object] =
                                         [id |-> id, data |-> net.data]]
                 ELSE lastOk
    /\ UNCHANGED issued

\* .then((data) => setVoivodeships(prepareData(data) || []))
\* .catch((e) => setError("Failed to fetch voivodeships" + e))
VoivodeshipsSettle(id, net) ==
    /\ Settle(id, net)
    /\ issued[id].object = "wojewodztwo"
    /\ voivodeships' = IF net.ok THEN prepareData(net.data) ELSE voivodeships
    /\ error' = IF net.ok THEN error
                ELSE "Failed to fetch voivodeships" \o "TypeError: Failed to fetch"
    /\ UNCHANGED <<districts, tenants, precincts, props, mounted, pdVars, geomVars>>

\* setDistricts appending to the list it holds
DistrictsAfterMerged(object, current) ==
    IF object.isArray THEN current \o object.value ELSE current

\* if (Array.isArray(object)) setDistricts(object || [])
DistrictsAfter(object, current) ==
    IF object.isArray THEN object.value ELSE current

\* fetchDistricts clearing the downstream lists
fetchDistrictsSettleClearing(id, net) ==
    /\ Settle(id, net)
    /\ issued[id].object = "powiat"
    /\ districts' = DistrictsAfter(fetchObject(net), districts)
    /\ tenants' = <<>>
    /\ precincts' = <<>>
    /\ UNCHANGED <<voivodeships, error, props, mounted, pdVars, geomVars>>

\* fetchDistricts calling setError(null) on success
fetchDistrictsSettleResetsError(id, net) ==
    /\ Settle(id, net)
    /\ issued[id].object = "powiat"
    /\ districts' = DistrictsAfter(fetchObject(net), districts)
    /\ error' = IF net.ok THEN Null ELSE error
    /\ UNCHANGED <<voivodeships, tenants, precincts, props, mounted, pdVars, geomVars>>

\* fetchDistricts after its await of fetchObject
fetchDistrictsSettle(id, net) ==
    /\ Settle(id, net)
    /\ issued[id].object = "powiat"
    /\ districts' = DistrictsAfter(fetchObject(net), districts)
    /\ UNCHANGED <<voivodeships, tenants, precincts, error, props, mounted,
                   pdVars, geomVars>>

fetchTenantsSettle(id, net) ==
    /\ Settle(id, net)
    /\ issued[id].object = "gmina"
    /\ tenants' = (LET object == fetchObject(net)
                   IN  IF object.isArray THEN object.value ELSE tenants)
    /\ UNCHANGED <<voivodeships, districts, precincts, error, props, mounted,
                   pdVars, geomVars>>

fetchPrecinctsSettle(id, net) ==
    /\ Settle(id, net)
    /\ issued[id].object = "obreb"
    /\ precincts' = (LET object == fetchObject(net)
                     IN  IF object.isArray THEN object.value ELSE precincts)
    /\ UNCHANGED <<voivodeships, districts, tenants, error, props, mounted,
                   pdVars, geomVars>>

-----------------------------------------------------------------------------
(* The hook under sample props, codes and responses.                        *)

PropsSamples ==
    { NoProps,
      [voivodeship |-> "02", district |-> NotGiven, tenant |-> NotGiven],
      [voivodeship |-> "02", district |-> "", tenant |-> NotGiven],
      [voivodeship |-> "04", district |-> NotGiven, tenant |-> NotGiven],
      [voivodeship |-> "02", district |-> "0201", tenant |-> NotGiven],
      [voivodeship |-> "02", district |-> "0201", tenant |-> "020101"] }

ListSamples ==
    { <<"h", NL, "A", PIPE, "1", NL, "B", PIPE, "2", NL>>,
      <<"h", NL, "C", PIPE, "3">> }

ListAnswers == {Failed} \cup {Text(d) : d \in ListSamples}

GeomSamples ==
    { <<"-", "1">>,
      <<"0", NL, "wkbPoint", NL>> }

Init ==
    /\ InitList0
    /\ InitGeom
    /\ \E p \in PropsSamples : InitHook(p)

Next ==
    \/ Mount
    \/ \E p \in PropsSamples : PropsChange(p)
    \/ \E value \in {"02", "04"} : fetchDistricts(value)
    \/ \E value \in {"0201"} : fetchTenants(value)
    \/ \E value \in {"020101"} : fetchPrecincts(value)
    \/ \E id \in inflight, net \in ListAnswers : VoivodeshipsSettle(id, net)
    \/ \E id \in inflight, net \in ListAnswers : fetchDistrictsSettle(id, net)
    \/ \E id \in inflight, net \in ListAnswers : fetchTenantsSettle(id, net)
    \/ \E id \in inflight, net \in ListAnswers : fetchPrecinctsSettle(id, net)
    \/ getRegionGeometryById("0201")
    \/ getParcelGeometryById("141201_1.0001.1867/2")
    \/ GeometryFetchRejects
    \/ GeometryFetchResolves(GeomSamples)

Spec == Init /\ [][Next]_vars

-----------------------------------------------------------------------------
(* The geometry lookups on every short response text.                       *)

InitGeomSpec ==
    /\ InitList0
    /\ InitGeom
    /\ InitHook(NoProps)

NextGeom ==
    \/ Mount
    \/ \E id \in GeomIds : getRegionGeometryById(id)
    \/ \E id \in GeomIds : getParcelGeometryById(id)
    \/ GeometryFetchRejects
    \/ GeometryFetchResolves(GeomInputs)

SpecGeom == InitGeomSpec /\ [][NextGeom]_vars

-----------------------------------------------------------------------------
(* The list parser applied to every short text over ListAlphabet.           *)

MaxLen == 6
ListAlphabet == {"a", PIPE, NL}
ListInputs == UNION {[1..n -> ListAlphabet] : n \in 0..MaxLen}

InitList ==
    /\ pdInput \in ListInputs
    /\ pdOutput = <<>>
    /\ pdDone = FALSE
    /\ InitGeom
    /\ InitHook(NoProps)

CallPrepareData ==
    /\ ~pdDone
    /\ pdOutput' = prepareData(pdInput)
    /\ pdDone' = TRUE
    /\ UNCHANGED pdInput
    /\ UNCHANGED <<geomVars, hookVars>>

NextList == CallPrepareData

SpecList == InitList /\ [][NextList]_vars

-----------------------------------------------------------------------------
(* What the list parser is specified to return, stated on the positions of  *)
(* the separators in the text.                                              *)

Positions(s, c) == {i \in 1..Len(s) : s[i] = c}

\* the k-th smallest element of the set of positions P (k >= 1)
Nth(P, k) == CHOOSE p \in P : Cardinality({q \in P : q < p}) = k - 1

\* line k (k >= 1) of text s: what lies between newline k-1 and newline k
LineOf(s, k) ==
    LET P == Positions(s, NL)
        from == IF k = 1 THEN 1 ELSE Nth(P, k - 1) + 1
        to == IF k > Cardinality(P) THEN Len(s) ELSE Nth(P, k) - 1
    IN  SubSeq(s, from, to)

LineCount(s) == Cardinality(Positions(s, NL)) + 1

\* the lines after the header that hold a '|', in input order
PipeLines(s) ==
    LET idx == {k \in 2..LineCount(s) : Positions(LineOf(s, k), PIPE) # {}}
    IN  [i \in 1..Cardinality(idx) |-> LineOf(s, Nth(idx, i))]

FirstPipe(line) == Nth(Positions(line, PIPE), 1)

\* the position of the second '|' of the line, or one past its end
FieldEnd(line) ==
    IF Cardinality(Positions(line, PIPE)) >= 2
    THEN Nth(Positions(line, PIPE), 2)
    ELSE Len(line) + 1

LabelOf(line) == SubSeq(line, 1, FirstPipe(line) - 1)
RestOf(line) == SubSeq(line, FirstPipe(line) + 1, Len(line))
SecondFieldOf(line) == SubSeq(line, FirstPipe(line) + 1, FieldEnd(line) - 1)

\* C1 as claimed: one Option per pipe-holding line after the header, in order,
\* label = the text before the first '|', value = ALL the text after it.
C1_AsClaimed ==
    pdDone =>
        LET lines == PipeLines(pdInput)
        IN  /\ Len(pdOutput) = Len(lines)
            /\ \A i \in 1..Len(lines) :
                   /\ pdOutput[i].label = LabelOf(lines[i])
                   /\ pdOutput[i].value = RestOf(lines[i])

\* C1 amended: the header is discarded and there is one Option per remaining line
\* that holds a '|', in input order; label = the text before the first '|',
\* value = the text between the first '|' and the next '|' (or the line's end).
C1_ListParser ==
    pdDone =>
        LET lines == PipeLines(pdInput)
        IN  /\ Len(pdOutput) = Len(lines)
            /\ \A i \in 1..Len(lines) :
                   /\ pdOutput[i].label = LabelOf(lines[i])
                   /\ pdOutput[i].value = SecondFieldOf(lines[i])

\* two different Options returned in order, one of them from a line with a second '|'
C1_Witness ==
    /\ pdDone
    /\ Len(pdOutput) = 2
    /\ pdOutput[1] # pdOutput[2]
    /\ \E k \in 2..LineCount(pdInput) :
           Cardinality(Positions(LineOf(pdInput, k), PIPE)) >= 2

-----------------------------------------------------------------------------
(* The geometry pipeline's contract, stated on the lines of the response.   *)

\* the non-empty lines after the status line, in input order
BlobLines(s) ==
    LET idx == {k \in 2..LineCount(s) : LineOf(s, k) # <<>>}
    IN  [i \in 1..Cardinality(idx) |-> LineOf(s, Nth(idx, i))]

HasMinusOne(st) == \E i \in 1..(Len(st) - 1) : st[i] = "-" /\ st[i + 1] = "1"

NotFound(s) == HasMinusOne(LineOf(s, 1))
DecodeFails(s) == \E i \in 1..Len(BlobLines(s)) : ~wkxParse(BlobLines(s)[i]).ok

\* C2: the pipeline is all-or-nothing: a geometry sequence is returned only when
\* the status line holds no "-1" and every non-empty line decodes, and then it
\* holds one geometry per non-empty line, in input order; otherwise the result is
\* failure (undefined), never a partial list.
C2_AllOrNothing ==
    gPc = "resolved" =>
        LET lines == BlobLines(gData)
        IN  IF NotFound(gData) \/ DecodeFails(gData)
            THEN gValue = Undefined
            ELSE /\ gValue.tag = "array"
                 /\ Len(gValue.items) = Len(lines)
                 /\ \A i \in 1..Len(lines) :
                        gValue.items[i] = from2180to4326(lines[i]).geojson

\* a response whose first blob decodes and whose second does not: no partial list
C2_Witness ==
    /\ gPc = "resolved"
    /\ ~NotFound(gData)
    /\ Len(BlobLines(gData)) = 2
    /\ wkxParse(BlobLines(gData)[1]).ok
    /\ ~wkxParse(BlobLines(gData)[2]).ok
    /\ gValue = Undefined

\* C3 as claimed: the lookups never reject: after a network failure, a not-found
\* status or a decode failure the promise is resolved with undefined.
C3_NeverRejects ==
    (gNet = "failed" \/ (gNet = "ok" /\ (NotFound(gData) \/ DecodeFails(gData))))
        => (gPc = "resolved" /\ gValue = Undefined)

T(p) == proj4("EPSG:2180", "EPSG:4326", p)

\* ring b is ring a with every position transformed once, in the same order
RingReprojected(a, b) ==
    /\ Len(b) = Len(a)
    /\ \A i \in 1..Len(a) : b[i] = T(a[i])

PolygonReprojected(a, b) ==
    /\ Len(b) = Len(a)
    /\ \A r \in 1..Len(a) : RingReprojected(a[r], b[r])

\* C9: reprojection keeps the geometry's type and shape: for Point, Polygon and
\* MultiPolygon the transform is applied exactly once to every coordinate pair,
\* with the polygons, rings and points kept in number and order; a geometry of
\* another type keeps its coordinates untransformed.
C9_Reprojection ==
    (gPc = "resolved" /\ gValue.tag = "array") =>
        \A i \in 1..Len(gValue.items) :
            LET in == wkxParse(BlobLines(gData)[i]).geojson
                out == gValue.items[i]
            IN  /\ out.type = in.type
                /\ DOMAIN out = DOMAIN in
                /\ IF in.type = "Point"
                   THEN out.coordinates = T(in.coordinates)
                   ELSE IF in.type = "Polygon"
                   THEN PolygonReprojected(in.coordinates, out.coordinates)
                   ELSE IF in.type = "MultiPolygon"
                   THEN /\ Len(out.coordinates) = Len(in.coordinates)
                        /\ \A k \in 1..Len(in.coordinates) :
                               PolygonReprojected(in.coordinates[k],
                                                  out.coordinates[k])
                   ELSE out.coordinates = in.coordinates

\* a MultiPolygon and a geometry of another type reprojected in one response
C9_Witness ==
    /\ gPc = "resolved"
    /\ gValue.tag = "array"
    /\ Len(gValue.items) = 2
    /\ gValue.items[1].type = "MultiPolygon"
    /\ gValue.items[2].type = "LineString"

-----------------------------------------------------------------------------
(* The hook's contract.                                                     *)

Levels == {"powiat", "gmina", "obreb"}

ListOf(object) ==
    IF object = "wojewodztwo" THEN voivodeships
    ELSE IF object = "powiat" THEN districts
    ELSE IF object = "gmina" THEN tenants
    ELSE precincts

ListOfNext(object) ==
    IF object = "wojewodztwo" THEN voivodeships'
    ELSE IF object = "powiat" THEN districts'
    ELSE IF object = "gmina" THEN tenants'
    ELSE precincts'

\* this step settles request id
Settles(id) == id \in inflight /\ id \notin inflight'

Seed02 == [voivodeship |-> "02", district |-> NotGiven, tenant |-> NotGiven]
SeedRequests ==
    <<[object |-> "wojewodztwo", teryt |-> ""], [object |-> "powiat", teryt |-> "02"]>>

VoivodeshipRequests ==
    {i \in 1..Len(issued) : issued[i].object = "wojewodztwo"}

\* C4 as claimed: when a level's fetch fails the error slot is set to a message;
\* when it succeeds the level's list is set to the parsed response.
C4_ErrorOnFailure ==
    [][\A id \in inflight :
          (Settles(id) /\ issued[id].object \in Levels) =>
              IF answered'[id].ok
              THEN ListOfNext(issued[id].object) = prepareData(answered'[id].data)
              ELSE error' # Null]_vars

\* C5: each level's list is the whole parsed response of the latest fetch of
\* that level settled with a response (latest in completion order), and the
\* initial empty list before any.
C5_LatestCompleted ==
    \A o \in Levels :
        ListOf(o) = IF lastOk[o].id = 0 THEN <<>> ELSE prepareData(lastOk[o].data)

\* two district fetches answered with different lists, the later-issued one
\* settled first: the list is the earlier-issued one's response
C5_Witness ==
    \E i, j \in DOMAIN answered :
        /\ i < j
        /\ issued[i].object = "powiat" /\ issued[j].object = "powiat"
        /\ answered[i].ok /\ answered[j].ok
        /\ lastOk["powiat"].id = i
        /\ districts = prepareData(answered[i].data)
        /\ districts # prepareData(answered[j].data)

\* C6: mounting with only {voivodeship: "02"} issues the voivodeship request and
\* exactly one district request with teryt=02, no tenant or precinct request;
\* when the district request is answered, districts holds the parsed response
\* and tenants and precincts stay empty.
C6_Seed ==
    [][/\ (~mounted /\ mounted' /\ props = Seed02) => issued' = SeedRequests
       /\ (props = Seed02 /\ issued = SeedRequests /\ Settles(2) /\ answered'[2].ok)
              => /\ districts' = prepareData(answered'[2].data)
                 /\ tenants' = <<>> /\ tenants = <<>>
                 /\ precincts' = <<>> /\ precincts = <<>>]_vars

C6_Witness ==
    /\ props = Seed02
    /\ issued = SeedRequests
    /\ 2 \in DOMAIN answered
    /\ answered[2].ok
    /\ Len(districts) = 2
    /\ tenants = <<>>
    /\ precincts = <<>>

\* C7: a step of a fetch operation writes only its own level's list: calls write
\* no list, the settling of a request of one level leaves the lists of the other
\* levels and voivodeships as they are, and a failed one leaves its own too.
C7_Frame ==
    [][/\ issued' # issued
          => UNCHANGED <<voivodeships, districts, tenants, precincts>>
       /\ \A id \in inflight :
              (Settles(id) /\ issued[id].object \in Levels) =>
                  /\ \A o \in Objects \ {issued[id].object} : ListOfNext(o) = ListOf(o)
                  /\ ~answered'[id].ok
                        => ListOfNext(issued[id].object) = ListOf(issued[id].object)
      ]_vars

\* districts fetched again (by a request issued later) with tenants loaded: the
\* tenants are still there
C7_Witness ==
    /\ lastOk["gmina"].id > 0
    /\ lastOk["powiat"].id > lastOk["gmina"].id
    /\ tenants # <<>>
    /\ districts # <<>>

\* C8: the voivodeship request is issued exactly once, at mount, whatever the
\* props, and never again by a fetch operation, a completion or a props change.
C8_VoivodeshipsOnce ==
    Cardinality(VoivodeshipRequests) = IF mounted THEN 1 ELSE 0

\* mounted with voivodeship 02, rendered again with voivodeship 04 (the district
\* request of the first commit is for 02), the voivodeship request settled
C8_Witness ==
    /\ mounted
    /\ props.voivodeship = "04"
    /\ Len(issued) = 3
    /\ issued[2] = [object |-> "powiat", teryt |-> "02"]
    /\ issued[3] = [object |-> "powiat", teryt |-> "04"]
    /\ 1 \in DOMAIN answered
    /\ VoivodeshipRequests = {1}

\* C10: the error slot starts as null and, once it holds a message, no step ever
\* sets it back to null.
C10_ErrorSticky ==
    /\ error = Null
    /\ [][error # Null => error' # Null]_vars

\* an error message held while a district fetch and a geometry lookup succeeded
C10_Witness ==
    /\ error # Null
    /\ lastOk["powiat"].id > 0
    /\ districts # <<>>
    /\ gPc = "resolved"
    /\ gValue.tag = "array"

====
